---- MODULE Spec2Model ----
(***************************************************************************)
(* Model of src/src/utils/apicParser.ts: the endpoint extractor            *)
(* (parseEndpointOutput), the attachment extractor (parseMoqueryOutput),   *)
(* the validator (validateVlanAllowances) and the CSV generator            *)
(* (generateCSV).  Strings are sequences of one-character strings, and     *)
(* every regular expression of the source is an operator that matches      *)
(* character by character, leftmost first and greedy as the JavaScript     *)
(* engine does.                                                            *)
(***************************************************************************)
EXTENDS Integers, Sequences, FiniteSets, TLC

VARIABLES pc, input, typed, endpointData, attachments, pathAttachments, results, csvArgs, csv

vars == <<pc, input, typed, endpointData, attachments, pathAttachments, results, csvArgs, csv>>

(***************************************************************************)
(* Bounds of the model.                                                    *)
(***************************************************************************)
MaxFrags == 4
MaxLines == 2
MaxAtt == 2
MaxPaths == 2
MaxResults == 2

(***************************************************************************)
(* Characters and character classes of the JavaScript regular expressions. *)
(***************************************************************************)
Null == [null |-> TRUE]

Digits == <<"0", "1", "2", "3", "4", "5", "6", "7", "8", "9">>

IsDigit(c) == c \in {"0", "1", "2", "3", "4", "5", "6", "7", "8", "9"}

IsSpace(c) == c \in {" ", "\t", "\n", "\r"}

IsDigitOrDash(c) == IsDigit(c) \/ c = "-"

NotSlash(c) == c # "/"

NotCloseBracket(c) == c # "]"

\* the character classes, by name
C_digit == "\\d"
C_space == "\\s"
C_digitDash == "[\\d-]"
C_notSlash == "[^\\/]"
C_notClose == "[^\\]]"

InClass(c, class) ==
    CASE class = C_digit -> IsDigit(c)
      [] class = C_space -> IsSpace(c)
      [] class = C_digitDash -> IsDigitOrDash(c)
      [] class = C_notSlash -> NotSlash(c)
      [] class = C_notClose -> NotCloseBracket(c)

UpperCase == <<"A", "B", "C", "D", "E", "F", "G", "H", "I", "J", "K", "L", "M",
               "N", "O", "P", "Q", "R", "S", "T", "U", "V", "W", "X", "Y", "Z">>

LowerCase == <<"a", "b", "c", "d", "e", "f", "g", "h", "i", "j", "k", "l", "m",
               "n", "o", "p", "q", "r", "s", "t", "u", "v", "w", "x", "y", "z">>

LowerMap == [c \in {UpperCase[i] : i \in 1..26} |->
               LowerCase[CHOOSE i \in 1..26 : UpperCase[i] = c]]

UpperSet == {UpperCase[i] : i \in 1..26}

Lower(c) == IF c \in UpperSet THEN LowerMap[c] ELSE c

SetMin(S) == CHOOSE x \in S : \A y \in S : x <= y

SetMax(S) == CHOOSE x \in S : \A y \in S : x >= y

\* The literal lit stands in s at position i (the i flag of a regex: ci).
LitAt(s, i, lit, ci) ==
    /\ i >= 1
    /\ i + Len(lit) - 1 <= Len(s)
    /\ \A k \in 1..Len(lit) :
          IF ci THEN Lower(s[i + k - 1]) = Lower(lit[k]) ELSE s[i + k - 1] = lit[k]

\* The end of the longest run of characters of a class that starts at i
\* (i - 1 when the run is empty): what a greedy X* or X+ consumes first.
RECURSIVE RunEnd(_, _, _)
RunEnd(s, i, class) ==
    IF i > Len(s) \/ ~InClass(s[i], class) THEN i - 1 ELSE RunEnd(s, i + 1, class)

Slice(s, i, j) == IF j < i THEN <<>> ELSE SubSeq(s, i, j)

NoMatch == [found |-> FALSE]

\* the string backwards
Reverse(s) == [k \in 1..Len(s) |-> s[Len(s) + 1 - k]]

\* String.prototype.trim
Trim(s) ==
    LET first == RunEnd(s, 1, C_space) + 1
        last == Len(s) - RunEnd(Reverse(s), 1, C_space)
    IN  Slice(s, first, last)

\* String.prototype.split('\n'): the pieces between the line feeds; the empty
\* string splits into one empty line.
Split(s) ==
    LET cuts == {0, Len(s) + 1} \cup {k \in 1..Len(s) : s[k] = "\n"}
        Cut[n \in 1..Cardinality(cuts)] ==
            IF n = 1 THEN 0 ELSE SetMin({c \in cuts : c > Cut[n - 1]})
    IN  [n \in 1..(Cardinality(cuts) - 1) |-> Slice(s, Cut[n] + 1, Cut[n + 1] - 1)]

\* parseInt of a string of decimal digits.
RECURSIVE ParseInt(_)
ParseInt(d) ==
    IF d = <<>> THEN 0
    ELSE 10 * ParseInt(SubSeq(d, 1, Len(d) - 1))
         + (CHOOSE v \in 0..9 : Digits[v + 1] = d[Len(d)])

(***************************************************************************)
(* The regular expressions of parseEndpointOutput.  A match is a record    *)
(* with its capture groups (g1, g2) and the position of its last           *)
(* character (last); String.prototype.match without the g flag returns the *)
(* leftmost match only.                                                    *)
(***************************************************************************)
S_vlan == <<"v", "l", "a", "n", "-">>
S_Node == <<"N", "o", "d", "e">>
S_vpc == <<"v", "p", "c">>
S_dashVPCdash == <<"-", "V", "P", "C", "-">>
S_dashPG == <<"-", "P", "G">>
S_pod1 == <<"p", "o", "d", "-", "1">>
S_pod2 == <<"p", "o", "d", "-", "2">>

\* /vlan-(\d+)/i anchored at position i.
VlanAt(s, i) ==
    IF LitAt(s, i, S_vlan, TRUE) /\ i + 5 <= Len(s) /\ IsDigit(s[i + 5])
    THEN [found |-> TRUE, g1 |-> SubSeq(s, i + 5, RunEnd(s, i + 5, C_digit)),
          last |-> RunEnd(s, i + 5, C_digit)]
    ELSE NoMatch

\* /Node\s*\n\s*(\d+)\s+(\d+)/ anchored at position i.  \s* may stop before
\* any line feed of the whitespace run after Node; the \s* after the line feed
\* then takes the rest of the run, so every choice gives the same groups.
NodeAt(s, i) ==
    IF ~LitAt(s, i, S_Node, FALSE) THEN NoMatch
    ELSE LET w == RunEnd(s, i + 4, C_space)
             d1 == RunEnd(s, w + 1, C_digit)
             w2 == RunEnd(s, d1 + 1, C_space)
             d2 == RunEnd(s, w2 + 1, C_digit)
         IN  IF /\ \E q \in (i + 4)..w : s[q] = "\n"
                /\ d1 >= w + 1
                /\ w2 >= d1 + 1
                /\ d2 >= w2 + 1
             THEN [found |-> TRUE, g1 |-> SubSeq(s, w + 1, d1),
                   g2 |-> SubSeq(s, w2 + 1, d2), last |-> d2]
             ELSE NoMatch

\* /vpc\s+([\d-]+-VPC-[\d-]+-PG)/i anchored at position i: each [\d-]+ is
\* greedy and gives characters back until the literal after it matches.
VpcAt(s, i) ==
    IF ~LitAt(s, i, S_vpc, TRUE) THEN NoMatch
    ELSE LET w == RunEnd(s, i + 3, C_space)
             r1 == RunEnd(s, w + 1, C_digitDash)
             \* the ends n of the second [\d-]+ possible after a first one ending at m
             Ends(m) == {n \in (m + 6)..RunEnd(s, m + 6, C_digitDash) :
                            LitAt(s, n + 1, S_dashPG, TRUE)}
             ms == {m \in (w + 1)..r1 :
                       LitAt(s, m + 1, S_dashVPCdash, TRUE) /\ Ends(m) # {}}
         IN  IF w >= i + 3 /\ ms # {}
             THEN LET n == SetMax(Ends(SetMax(ms)))
                  IN  [found |-> TRUE, g1 |-> SubSeq(s, w + 1, n + 3), last |-> n + 3]
             ELSE NoMatch

\* The leftmost match at or after position from.
VlanMatchFrom(s, from) ==
    LET at == {i \in from..Len(s) : VlanAt(s, i).found}
    IN  IF at = {} THEN NoMatch ELSE VlanAt(s, SetMin(at))

NodeMatchFrom(s, from) ==
    LET at == {i \in from..Len(s) : NodeAt(s, i).found}
    IN  IF at = {} THEN NoMatch ELSE NodeAt(s, SetMin(at))

VpcMatchFrom(s, from) ==
    LET at == {i \in from..Len(s) : VpcAt(s, i).found}
    IN  IF at = {} THEN NoMatch ELSE VpcAt(s, SetMin(at))

vlanMatch(line) == VlanMatchFrom(line, 1)

nodeMatch(line) == NodeMatchFrom(line, 1)

vpcMatch(line) == VpcMatchFrom(line, 1)

(***************************************************************************)
(* parseEndpointOutput: the loop over the lines and the output policy.     *)
(***************************************************************************)
\* Set.prototype.add on a Set kept in insertion order.
SetAddDup(set, x) == Append(set, x)

SetAdd(set, x) == IF \E k \in 1..Len(set) : set[k] = x THEN set ELSE Append(set, x)

\* if (vlanMatch) vlan = vlanMatch[1]
NextVlanFirstWins(vlan, line) ==
    IF vlanMatch(line).found /\ vlan = <<>> THEN vlanMatch(line).g1 ELSE vlan

NextVlan(vlan, line) == IF vlanMatch(line).found THEN vlanMatch(line).g1 ELSE vlan

\* the classification of the first number of a Node block
NextPod(pod, line) ==
    IF nodeMatch(line).found
    THEN LET node1 == ParseInt(nodeMatch(line).g1)
         IN  IF node1 >= 400 THEN S_pod2
             ELSE IF node1 >= 300 THEN S_pod1
             ELSE pod
    ELSE pod

NextPathSet(pathSet, line) ==
    IF vpcMatch(line).found THEN SetAdd(pathSet, vpcMatch(line).g1) ELSE pathSet

\* the body of the for loop, from line k on
RECURSIVE ScanEndpointLines(_, _, _)
ScanEndpointLines(lines, k, acc) ==
    IF k > Len(lines) THEN acc
    ELSE CHOOSE out \in
            {ScanEndpointLines(lines, k + 1, next) :
                next \in {[vlan |-> NextVlan(acc.vlan, lines[k]),
                           pod |-> NextPod(acc.pod, lines[k]),
                           pathSet |-> NextPathSet(acc.pathSet, lines[k])]}} : TRUE

\* if (vlan && pathSet.size > 0)
RecordFoundEither(vlan, pathSet) == vlan # <<>> \/ Len(pathSet) > 0

RecordFound(vlan, pathSet) == vlan # <<>> /\ Len(pathSet) > 0

parseEndpointOutput(text) ==
    LET lines == Split(Trim(text))
        acc == ScanEndpointLines(lines, 1, [vlan |-> <<>>, pod |-> <<>>, pathSet |-> <<>>])
    IN  IF RecordFound(acc.vlan, acc.pathSet)
        THEN [vlan |-> acc.vlan,
              ip |-> <<>>,
              paths |-> acc.pathSet,
              pod |-> IF acc.pod = <<>> THEN S_pod1 ELSE acc.pod]
        ELSE Null

(***************************************************************************)
(* Endpoint extractor: the caller's text is typed fragment by fragment     *)
(* and then handed to parseEndpointOutput.                                 *)
(***************************************************************************)
EndpointFragments ==
    { <<"v", "l", "a", "n", "-", "1">>,
      <<"V", "L", "A", "N", "-", "2", "0">>,
      <<"v", "p", "c", " ", "1", "-", "V", "P", "C", "-", "1", "-", "P", "G">>,
      <<"V", "P", "C", " ", " ", "2", "-", "v", "p", "c", "-", "3", "-", "p", "g">>,
      <<"\n">>,
      <<"N", "o", "d", "e", "\n">>,
      <<" ", "4", "1", "0", " ", "5">> }

EndpointInit ==
    /\ pc = "type"
    /\ input = <<>>
    /\ typed = 0
    /\ endpointData = Null
    /\ attachments = <<>>
    /\ pathAttachments = <<>>
    /\ results = <<>>
    /\ csvArgs = Null
    /\ csv = Null

TypeEndpointText ==
    /\ pc = "type"
    /\ typed < MaxFrags
    /\ \E f \in EndpointFragments : input' = input \o f
    /\ typed' = typed + 1
    /\ UNCHANGED <<pc, endpointData, attachments, pathAttachments, results, csvArgs, csv>>

CallParseEndpointOutput ==
    /\ pc = "type"
    /\ endpointData' = parseEndpointOutput(input)
    /\ pc' = "done"
    /\ UNCHANGED <<input, typed, attachments, pathAttachments, results, csvArgs, csv>>

EndpointNext == TypeEndpointText \/ CallParseEndpointOutput

SpecEndpoint == EndpointInit /\ [][EndpointNext]_vars

(***************************************************************************)
(* What the claims about the endpoint extractor speak of: the markers of   *)
(* a text, found by scanning on after each match (as a g-flagged regex     *)
(* does), and stated over the text itself.                                 *)
(***************************************************************************)
RECURSIVE AllVlanMarkers(_, _)
AllVlanMarkers(s, from) ==
    LET m == VlanMatchFrom(s, from)
    IN  IF m.found THEN <<m.g1>> \o AllVlanMarkers(s, m.last + 1) ELSE <<>>

RECURSIVE AllVpcMarkers(_, _)
AllVpcMarkers(s, from) ==
    LET m == VpcMatchFrom(s, from)
    IN  IF m.found THEN <<m.g1>> \o AllVpcMarkers(s, m.last + 1) ELSE <<>>

RECURSIVE AllNodeBlocks(_, _)
AllNodeBlocks(s, from) ==
    LET m == NodeMatchFrom(s, from)
    IN  IF m.found THEN <<m.g1>> \o AllNodeBlocks(s, m.last + 1) ELSE <<>>

ToSet(seq) == {seq[k] : k \in 1..Len(seq)}

NoDuplicates(seq) == \A j, k \in 1..Len(seq) : seq[j] = seq[k] => j = k

\* the text holds a vlan-<digits> marker
HasVlanMarker(s) ==
    \E i \in 1..Len(s) : LitAt(s, i, S_vlan, TRUE) /\ i + 5 <= Len(s) /\ IsDigit(s[i + 5])

\* the text holds vpc <digits-and-dashes>-VPC-<digits-and-dashes>-PG on one line
HasVpcMarker(s) ==
    \E i \in 1..Len(s) :
        /\ LitAt(s, i, S_vpc, TRUE)
        /\ \E w \in (i + 3)..Len(s) :
              /\ \A k \in (i + 3)..w : IsSpace(s[k]) /\ s[k] # "\n"
              /\ \E m \in (w + 1)..Len(s) :
                    /\ \A k \in (w + 1)..m : IsDigitOrDash(s[k])
                    /\ LitAt(s, m + 1, S_dashVPCdash, TRUE)
                    /\ \E n \in (m + 6)..Len(s) :
                          /\ \A k \in (m + 6)..n : IsDigitOrDash(s[k])
                          /\ LitAt(s, n + 1, S_dashPG, TRUE)

\* the pod the Node blocks of a text classify, the last block winning
RECURSIVE PodOfBlocks(_, _)
PodOfBlocks(blocks, k) ==
    IF k = 0 THEN <<>>
    ELSE IF ParseInt(blocks[k]) >= 400 THEN S_pod2
    ELSE IF ParseInt(blocks[k]) >= 300 THEN S_pod1
    ELSE PodOfBlocks(blocks, k - 1)

EndpointLines == Split(Trim(input))

\* C1: when the text holds a Node block (a line with Node, then on the next
\* line two numbers) whose first number classifies a pod, and a record is
\* returned, the record's pod is that of the last such block.
C1_NodeBlockClassifiesPod ==
    (pc = "done" /\ endpointData # Null /\ PodOfBlocks(AllNodeBlocks(input, 1), Len(AllNodeBlocks(input, 1))) # <<>>)
        => endpointData.pod = PodOfBlocks(AllNodeBlocks(input, 1), Len(AllNodeBlocks(input, 1)))

\* C6: a record is returned exactly when the text holds a vlan marker and a
\* VPC path marker; its ip is empty and its pod is pod-1 or pod-2, pod-1
\* when no line classified a pod.
C6_RecordIffBothMarkers ==
    pc = "done" =>
        /\ (endpointData # Null) <=> (HasVlanMarker(input) /\ HasVpcMarker(input))
        /\ endpointData # Null =>
              /\ endpointData.ip = <<>>
              /\ endpointData.pod \in {S_pod1, S_pod2}
              /\ (\A k \in 1..Len(EndpointLines) : NextPod(<<>>, EndpointLines[k]) = <<>>)
                    => endpointData.pod = S_pod1

C6_Witness ==
    /\ pc = "done"
    /\ endpointData # Null
    /\ Len(EndpointLines) >= 2
    /\ ~(\E k \in 1..Len(EndpointLines) :
            HasVlanMarker(EndpointLines[k]) /\ HasVpcMarker(EndpointLines[k]))

\* C7 as stated: the record's vlan is the last vlan marker of the text.
C7_LastMarkerInText ==
    (pc = "done" /\ endpointData # Null)
        => endpointData.vlan = AllVlanMarkers(input, 1)[Len(AllVlanMarkers(input, 1))]

\* C7, amended: the record's vlan is the first vlan marker of the last line
\* that holds one.
C7_FirstMarkerOfLastMatchingLine ==
    (pc = "done" /\ endpointData # Null) =>
        LET K == SetMax({k \in 1..Len(EndpointLines) : HasVlanMarker(EndpointLines[k])})
        IN  endpointData.vlan = AllVlanMarkers(EndpointLines[K], 1)[1]

C7_Witness ==
    /\ pc = "done"
    /\ endpointData # Null
    /\ \E j, k \in 1..Len(EndpointLines) :
          /\ j < k
          /\ HasVlanMarker(EndpointLines[j])
          /\ HasVlanMarker(EndpointLines[k])
          /\ AllVlanMarkers(EndpointLines[j], 1)[1] # AllVlanMarkers(EndpointLines[k], 1)[1]
          /\ endpointData.vlan = AllVlanMarkers(EndpointLines[k], 1)[1]

\* C8 as stated: the record's paths are, without duplicates, every VPC path
\* marker of the text.
C8_EveryMarkerInText ==
    (pc = "done" /\ endpointData # Null) =>
        /\ NoDuplicates(endpointData.paths)
        /\ ToSet(endpointData.paths)
             = UNION {ToSet(AllVpcMarkers(EndpointLines[k], 1)) : k \in 1..Len(EndpointLines)}

\* C8, amended: the record's paths are, without duplicates, the first VPC
\* path marker of each line that holds one.
C8_FirstMarkerOfEachLine ==
    (pc = "done" /\ endpointData # Null) =>
        /\ NoDuplicates(endpointData.paths)
        /\ ToSet(endpointData.paths)
             = {AllVpcMarkers(EndpointLines[k], 1)[1] :
                   k \in {j \in 1..Len(EndpointLines) : HasVpcMarker(EndpointLines[j])}}

C8_Witness ==
    /\ pc = "done"
    /\ endpointData # Null
    /\ \E j, k \in 1..Len(EndpointLines) :
          /\ j < k
          /\ HasVpcMarker(EndpointLines[j])
          /\ HasVpcMarker(EndpointLines[k])
          /\ AllVpcMarkers(EndpointLines[j], 1)[1] = AllVpcMarkers(EndpointLines[k], 1)[1]
    /\ Len(endpointData.paths) = 1

(***************************************************************************)
(* The regular expressions of parseMoqueryOutput, validateVlanAllowances   *)
(* and generateCSV are sequences of literals and greedy runs.  A cursor is *)
(* the next position to read, 0 once the match has failed.  Every class of *)
(* these patterns excludes the character the pattern wants after it, so a  *)
(* greedy run never gives characters back.                                 *)
(***************************************************************************)
S_dn == <<"d", "n">>
S_colon == <<":">>
S_uniTn == <<"u", "n", "i", "/", "t", "n", "-">>
S_ap == <<"/", "a", "p", "-">>
S_epg == <<"/", "e", "p", "g", "-">>
S_rspathAtt == <<"/", "r", "s", "p", "a", "t", "h", "A", "t", "t", "-", "[", "t", "o", "p", "o", "l", "o", "g", "y", "/">>
S_pod == <<"p", "o", "d", "-">>
S_protpaths == <<"/", "p", "r", "o", "t", "p", "a", "t", "h", "s", "-">>
S_paths == <<"/", "p", "a", "t", "h", "s", "-">>
S_slashPathep == <<"/", "p", "a", "t", "h", "e", "p", "-", "[">>
S_pathep == <<"p", "a", "t", "h", "e", "p", "-", "[">>
S_close == <<"]">>
S_VLAN == <<"V", "L", "A", "N">>
S_slash == <<"/">>

\* one item of a pattern: a literal, or a greedy run of a class of at least
\* min characters
ItemLit(lit) == [kind |-> "lit", lit |-> lit, class |-> "", min |-> 0]

ItemRun(class, min) == [kind |-> "run", lit |-> <<>>, class |-> class, min |-> min]

\* the cursor after one item read at cursor p
Step(s, p, item, ci) ==
    IF p = 0 THEN 0
    ELSE IF item.kind = "lit"
    THEN (IF LitAt(s, p, item.lit, ci) THEN p + Len(item.lit) ELSE 0)
    ELSE (IF RunEnd(s, p, item.class) - p + 1 < item.min THEN 0
          ELSE RunEnd(s, p, item.class) + 1)

\* the cursors after each of the items k.. of a pattern read from cursor p
RECURSIVE Cursors(_, _, _, _, _)
Cursors(s, p, pattern, k, ci) ==
    IF k > Len(pattern) THEN <<>>
    ELSE CHOOSE c \in {<<q>> \o Cursors(s, q, pattern, k + 1, ci) :
                          q \in {Step(s, p, pattern[k], ci)}} : TRUE

\* /dn\s*:\s*uni\/tn-[^\/]+\/ap-[^\/]+\/epg-([^\/]+)\/rspathAtt-\[topology\/
\*  (pod-\d+\/protpaths-[\d-]+\/pathep-\[[^\]]+\])\]/i
DnPatternVpc ==
    << ItemLit(S_dn), ItemRun(C_space, 0), ItemLit(S_colon), ItemRun(C_space, 0),
       ItemLit(S_uniTn), ItemRun(C_notSlash, 1),
       ItemLit(S_ap), ItemRun(C_notSlash, 1),
       ItemLit(S_epg), ItemRun(C_notSlash, 1),
       ItemLit(S_rspathAtt),
       ItemLit(S_pod), ItemRun(C_digit, 1),
       ItemLit(S_protpaths), ItemRun(C_digitDash, 1),
       ItemLit(S_slashPathep), ItemRun(C_notClose, 1), ItemLit(S_close),
       ItemLit(S_close) >>

\* the same with \/paths-[\d]+ for the node
DnPatternSingle ==
    [DnPatternVpc EXCEPT ![14] = ItemLit(S_paths), ![15] = ItemRun(C_digit, 1)]

DnPattern(vpc) == IF vpc THEN DnPatternVpc ELSE DnPatternSingle

\* the dn pattern anchored at position i: group 1 lies between the cursors 9
\* and 10, group 2 between the cursors 11 and 18
DnAt(s, i, vpc) ==
    IF ~LitAt(s, i, S_dn, TRUE) THEN NoMatch
    ELSE CHOOSE m \in {IF c[19] > 0
                       THEN [found |-> TRUE, g1 |-> SubSeq(s, c[9], c[10] - 1),
                             g2 |-> SubSeq(s, c[11], c[18] - 1)]
                       ELSE NoMatch :
                          c \in {Cursors(s, i, DnPattern(vpc), 1, TRUE)}} : TRUE

DnMatchKind(line, vpc) ==
    LET at == {i \in 1..Len(line) : DnAt(line, i, vpc).found}
    IN  IF at = {} THEN NoMatch
        ELSE CHOOSE m \in {DnAt(line, i, vpc) : i \in {SetMin(at)}} : TRUE

\* Match protpaths (VPC), then single paths (non-VPC)
dnMatch(line) ==
    CHOOSE m \in {IF vpc.found THEN vpc ELSE DnMatchKind(line, FALSE) :
                     vpc \in {DnMatchKind(line, TRUE)}} : TRUE

\* the leftmost position a pattern matches at, 0 when there is none
Leftmost(s, pattern, ci) ==
    LET at == {i \in 1..Len(s) : Cursors(s, i, pattern, 1, ci)[Len(pattern)] > 0}
    IN  IF at = {} THEN 0 ELSE SetMin(at)

\* /VLAN(\d+)/i, leftmost
VlanPattern == <<ItemLit(S_VLAN), ItemRun(C_digit, 1)>>

epgVlanMatch(epg) ==
    CHOOSE m \in {IF i = 0 THEN NoMatch
                  ELSE [found |-> TRUE,
                        g1 |-> SubSeq(epg, i + 4, Cursors(epg, i, VlanPattern, 1, TRUE)[2] - 1)] :
                     i \in {Leftmost(epg, VlanPattern, TRUE)}} : TRUE

\* /pathep-\[([^\]]+)\]/, leftmost
PathepPattern == <<ItemLit(S_pathep), ItemRun(C_notClose, 1), ItemLit(S_close)>>

pathMatch(fullPath) ==
    CHOOSE m \in {IF i = 0 THEN NoMatch
                  ELSE [found |-> TRUE,
                        g1 |-> SubSeq(fullPath, i + 8,
                                      Cursors(fullPath, i, PathepPattern, 1, FALSE)[2] - 1)] :
                     i \in {Leftmost(fullPath, PathepPattern, FALSE)}} : TRUE

extractVlanFromEpg(epgName) == IF epgVlanMatch(epgName).found THEN epgVlanMatch(epgName).g1 ELSE <<>>

\* if (vlan && pathName)
KeepAttachmentEither(vlan, pathName) == vlan # <<>> \/ pathName # <<>>

KeepAttachment(vlan, pathName) == vlan # <<>> /\ pathName # <<>>

\* the body of the for loop of parseMoqueryOutput for one line
PushAttachment(atts, line) ==
    CHOOSE next \in
        {IF m.found
         THEN CHOOSE out \in
                 {IF KeepAttachment(vlan, pathName)
                  THEN Append(atts, [vlan |-> vlan, epg |-> m.g1, path |-> pathName,
                                     fullPath |-> m.g2])
                  ELSE atts :
                     vlan \in {IF epgVlanMatch(m.g1).found THEN epgVlanMatch(m.g1).g1 ELSE <<>>},
                     pathName \in {IF pathMatch(m.g2).found THEN pathMatch(m.g2).g1 ELSE <<>>}} : TRUE
         ELSE atts :
            m \in {dnMatch(line)}} : TRUE

RECURSIVE ScanMoqueryLines(_, _, _)
ScanMoqueryLines(lines, k, atts) ==
    IF k > Len(lines) THEN atts
    ELSE CHOOSE out \in {ScanMoqueryLines(lines, k + 1, next) :
                            next \in {PushAttachment(atts, lines[k])}} : TRUE

parseMoqueryOutput(text) ==
    CHOOSE out \in {ScanMoqueryLines(lines, 1, <<>>) : lines \in {Split(Trim(text))}} : TRUE

(***************************************************************************)
(* Attachment extractor: the caller's text is typed line by line and then  *)
(* handed to parseMoqueryOutput.                                           *)
(***************************************************************************)
L_dn == <<"d", "n", " ", ":", " ", "u", "n", "i", "/", "t", "n", "-", "T", "/", "a", "p", "-", "A", "/", "e", "p", "g", "-">>
L_topology == <<"/", "r", "s", "p", "a", "t", "h", "A", "t", "t", "-", "[", "t", "o", "p", "o", "l", "o", "g", "y", "/">>
L_epgs == {<<"V", "L", "A", "N", "1", "_", "E">>, <<"E", "2">>}
L_pod == <<"p", "o", "d", "-", "1", "/">>
L_nodes == {<<"p", "r", "o", "t", "p", "a", "t", "h", "s", "-", "1", "-", "2", "/">>, <<"p", "a", "t", "h", "s", "-", "9", "/">>}
L_patheps == {<<"p", "a", "t", "h", "e", "p", "-", "[", "1", "-", "2", "-", "V", "P", "C", "-", "1", "-", "P", "G", "]">>, <<"p", "a", "t", "h", "e", "p", "-", "[", "]">>, <<"P", "A", "T", "H", "E", "P", "-", "[", "P", "]">>}

MoqueryLines ==
    {L_dn \o e \o L_topology \o L_pod \o n \o t \o S_close :
        e \in L_epgs, n \in L_nodes, t \in L_patheps}
    \cup { <<"D", "N", ":", "U", "N", "I", "/", "T", "N", "-", "T", "/", "A", "P", "-", "A", "/", "E", "P", "G", "-", "v", "l", "a", "n", "2", "0", "/", "R", "S", "P", "A", "T", "H", "A", "T", "T", "-", "[", "T", "O", "P", "O", "L", "O", "G", "Y", "/", "P", "O", "D", "-", "2", "/", "P", "A", "T", "H", "S", "-", "9", "/", "p", "a", "t", "h", "e", "p", "-", "[", "P", "]", "]">>,
           <<"d", "n", " ", ":", " ", "u", "n", "i", "/", "t", "n", "-", "T", "/", "a", "p", "-", "A", "/", "e", "p", "g", "-", "V", "L", "A", "N", "1", "_", "E", "/", "r", "s", "p", "a", "t", "h", "A", "t", "t", "-", "[", "t", "o", "p", "o", "l", "o", "g", "y", "/", "p", "o", "d", "-", "x", "/", "p", "a", "t", "h", "s", "-", "9", "/", "p", "a", "t", "h", "e", "p", "-", "[", "P", "]", "]">>,
           <<"#", " ", "d", "n">> }

MoqueryInit ==
    /\ pc = "type"
    /\ input = <<>>
    /\ typed = 0
    /\ endpointData = Null
    /\ attachments = <<>>
    /\ pathAttachments = <<>>
    /\ results = <<>>
    /\ csvArgs = Null
    /\ csv = Null

TypeMoqueryLine ==
    /\ pc = "type"
    /\ typed < MaxLines
    /\ \E l \in MoqueryLines :
          input' = IF typed = 0 THEN l ELSE input \o <<"\n">> \o l
    /\ typed' = typed + 1
    /\ UNCHANGED <<pc, endpointData, attachments, pathAttachments, results, csvArgs, csv>>

CallParseMoqueryOutput ==
    /\ pc = "type"
    /\ attachments' = parseMoqueryOutput(input)
    /\ pc' = "done"
    /\ UNCHANGED <<input, typed, endpointData, pathAttachments, results, csvArgs, csv>>

MoqueryNext == TypeMoqueryLine \/ CallParseMoqueryOutput

SpecMoquery == MoqueryInit /\ [][MoqueryNext]_vars

(***************************************************************************)
(* What the claim about the attachment extractor speaks of.                *)
(***************************************************************************)
\* the members of a set of numbers in ascending order
Ascending(S) ==
    LET Nth[n \in 1..Cardinality(S)] ==
            IF n = 1 THEN SetMin(S) ELSE SetMin({x \in S : x > Nth[n - 1]})
    IN  [n \in 1..Cardinality(S) |-> Nth[n]]

\* the endpoint-group label holds a VLAN<digits> marker
HasEpgVlanMarker(epg) ==
    \E i \in 1..Len(epg) : LitAt(epg, i, S_VLAN, TRUE) /\ i + 4 <= Len(epg) /\ IsDigit(epg[i + 4])

\* the topology suffix holds a non-empty pathep-[...] token
HasPathepToken(fullPath) ==
    \E i \in 1..Len(fullPath) : \E j \in (i + 9)..Len(fullPath) :
        /\ LitAt(fullPath, i, S_pathep, FALSE)
        /\ fullPath[j] = "]"
        /\ \A k \in (i + 8)..(j - 1) : fullPath[k] # "]"

\* the line yields an attachment
LineEmits(line) ==
    LET m == dnMatch(line)
    IN  m.found /\ HasEpgVlanMarker(m.g1) /\ HasPathepToken(m.g2)

\* pod-<n>/protpaths-<digits-and-dashes>/pathep-[<path>] or
\* pod-<n>/paths-<n>/pathep-[<path>], the pod and node words in any case
IsFullPathForm(fp, path) ==
    \E a \in 5..Len(fp) : \E b \in (a + 1)..Len(fp) :
        /\ LitAt(fp, 1, S_pod, TRUE)
        /\ \A k \in 5..a : IsDigit(fp[k])
        /\ \/ /\ LitAt(fp, a + 1, S_protpaths, TRUE)
              /\ b >= a + 12
              /\ \A k \in (a + 12)..b : IsDigitOrDash(fp[k])
           \/ /\ LitAt(fp, a + 1, S_paths, TRUE)
              /\ b >= a + 8
              /\ \A k \in (a + 8)..b : IsDigit(fp[k])
        /\ SubSeq(fp, b + 1, Len(fp)) = S_slashPathep \o path \o S_close

MoqueryTextLines == Split(Trim(input))

EmittingLines(lines) == Ascending({k \in 1..Len(lines) : LineEmits(lines[k])})

S_allowed == <<"a", "l", "l", "o", "w", "e", "d">>
S_notAllowed == <<"n", "o", "t", "_", "a", "l", "l", "o", "w", "e", "d">>

\* /^(pod-\d+)\//
PodPattern == <<ItemLit(S_pod), ItemRun(C_digit, 1), ItemLit(S_slash)>>

podMatch(fullPath) ==
    CHOOSE m \in {IF c[3] > 0 THEN [found |-> TRUE, g1 |-> SubSeq(fullPath, 1, c[2] - 1)]
                  ELSE NoMatch :
                     c \in {Cursors(fullPath, 1, PodPattern, 1, FALSE)}} : TRUE

\* the filter of allowedPathsSet: both VLAN and pod match
AttachmentAllowsVlanOnly(att, endpoint) == att.vlan = endpoint.vlan

AttachmentAllows(att, endpoint) ==
    IF att.vlan # endpoint.vlan THEN FALSE
    ELSE podMatch(att.fullPath).found /\ podMatch(att.fullPath).g1 = endpoint.pod

allowedPathsSet(endpoint, atts) ==
    {atts[k].path : k \in {j \in 1..Len(atts) : AttachmentAllows(atts[j], endpoint)}}

\* The pathPodMap the function fills first is never read afterwards; it
\* has no part in the result.
validateVlanAllowances(endpoint, atts) ==
    [k \in 1..Len(endpoint.paths) |->
        LET isAllowed == endpoint.paths[k] \in allowedPathsSet(endpoint, atts)
        IN  [path |-> endpoint.paths[k],
             hasActiveEndpoint |-> TRUE,
             isVlanAllowed |-> isAllowed,
             status |-> IF isAllowed THEN S_allowed ELSE S_notAllowed]]

(***************************************************************************)
(* generateCSV                                                             *)
(***************************************************************************)
S_header == <<"V", "L", "A", "N", ",", "E", "P", "G", ",", "P", "A", "T", "H">>
S_comma == <<",">>
S_newline == <<"\n">>
S_dashVPC == <<"-", "V", "P", "C">>
S_dash == <<"-">>
S_protpathsDash == <<"/", "p", "r", "o", "t", "p", "a", "t", "h", "s", "-">>
S_pathsXXX == <<"/", "p", "a", "t", "h", "s", "-", "X", "X", "X", "/", "p", "a", "t", "h", "e", "p", "-", "[">>

\* r => r.status === 'not_allowed'
IsAnyResult(r) == TRUE

IsNotAllowed(r) == r.status = S_notAllowed

\* results.filter(r => r.status === 'not_allowed').map(r => r.path)
RECURSIVE notAllowedPaths(_)
notAllowedPaths(rs) ==
    IF rs = <<>> THEN <<>>
    ELSE (IF IsNotAllowed(rs[1]) THEN <<rs[1].path>> ELSE <<>>) \o notAllowedPaths(Tail(rs))

\* the test of the scan: same path, a pod in fullPath, that pod the endpoint's
AttachmentResolvesAnyPod(att, vpcPath, endpoint) == att.path = vpcPath

AttachmentResolves(att, vpcPath, endpoint) ==
    /\ att.path = vpcPath
    /\ podMatch(att.fullPath).found
    /\ podMatch(att.fullPath).g1 = endpoint.pod

\* the attachment the scan stops at (break), among those that pass the test
PickLastAttachment(hits) == SetMax(hits)

PickAttachment(hits) == SetMin(hits)

\* /(\d+)-(\d+)-VPC/, leftmost
ProtpathsPattern ==
    <<ItemRun(C_digit, 1), ItemLit(S_dash), ItemRun(C_digit, 1), ItemLit(S_dashVPC)>>

protpathsMatch(vpcPath) ==
    CHOOSE m \in {IF i = 0 THEN NoMatch
                  ELSE CHOOSE r \in {[found |-> TRUE, g1 |-> SubSeq(vpcPath, i, c[1] - 1),
                                      g2 |-> SubSeq(vpcPath, c[2], c[3] - 1)] :
                                        c \in {Cursors(vpcPath, i, ProtpathsPattern, 1, FALSE)}} : TRUE :
                     i \in {Leftmost(vpcPath, ProtpathsPattern, FALSE)}} : TRUE

\* If not found in moquery, construct path using endpoint pod
SynthesizedPlaceholderOnly(vpcPath, endpoint) ==
    endpoint.pod \o S_pathsXXX \o vpcPath \o S_close

SynthesizedFullPath(vpcPath, endpoint) ==
    IF protpathsMatch(vpcPath).found
    THEN endpoint.pod \o S_protpathsDash \o protpathsMatch(vpcPath).g1 \o S_dash
            \o protpathsMatch(vpcPath).g2 \o S_slashPathep \o vpcPath \o S_close
    ELSE endpoint.pod \o S_pathsXXX \o vpcPath \o S_close

\* the fullPath of one row
RowFullPath(vpcPath, endpoint, atts) ==
    LET hits == {k \in 1..Len(atts) : AttachmentResolves(atts[k], vpcPath, endpoint)}
        fullPath == IF hits = {} THEN <<>> ELSE atts[PickAttachment(hits)].fullPath
    IN  IF fullPath = <<>> THEN SynthesizedFullPath(vpcPath, endpoint) ELSE fullPath

\* rows.join('\n')
RECURSIVE JoinLines(_)
JoinLines(rows) ==
    IF rows = <<>> THEN <<>>
    ELSE IF Len(rows) = 1 THEN rows[1]
    ELSE rows[1] \o S_newline \o JoinLines(Tail(rows))

\* The pathMap the function fills first (path -> fullPath, last attachment
\* wins) is never read afterwards; each row comes from the scan below it.
generateCSV(vlan, epg, rs, endpoint, atts) ==
    LET paths == notAllowedPaths(rs)
        rows == [n \in 1..Len(paths) |->
                    vlan \o S_comma \o epg \o S_comma \o RowFullPath(paths[n], endpoint, atts)]
    IN  S_header \o S_newline \o JoinLines(rows)

(***************************************************************************)
(* Validator and CSV generator: the caller builds an endpoint record, an   *)
(* attachment list and (for generateCSV) a result list, then calls.        *)
(***************************************************************************)
P_A == <<"1", "1", "-", "2", "-", "V", "P", "C", "-", "1", "-", "P", "G">>
P_B == <<"7", "-", "V", "P", "C", "-", "1", "-", "P", "G">>
PathNames == {P_A, P_B}

V_1 == <<"1">>
V_20 == <<"2", "0">>

AttachmentChoices ==
    { [vlan |-> <<"1">>, epg |-> <<"V", "L", "A", "N", "1", "_", "E">>,
       path |-> P_A,
       fullPath |-> <<"p", "o", "d", "-", "1", "/", "p", "r", "o", "t", "p", "a", "t", "h", "s", "-", "1", "1", "-", "2", "/", "p", "a", "t", "h", "e", "p", "-", "[">> \o P_A \o S_close],
      [vlan |-> <<"2", "0">>, epg |-> <<"V", "L", "A", "N", "2", "0", "_", "E">>,
       path |-> P_A,
       fullPath |-> <<"p", "o", "d", "-", "1", "/", "p", "a", "t", "h", "s", "-", "9", "/", "p", "a", "t", "h", "e", "p", "-", "[">> \o P_A \o S_close],
      [vlan |-> <<"1">>, epg |-> <<"V", "L", "A", "N", "1", "_", "E">>,
       path |-> P_A,
       fullPath |-> <<"p", "o", "d", "-", "2", "/", "p", "r", "o", "t", "p", "a", "t", "h", "s", "-", "1", "1", "-", "2", "/", "p", "a", "t", "h", "e", "p", "-", "[">> \o P_A \o S_close],
      [vlan |-> <<"1">>, epg |-> <<"V", "L", "A", "N", "1", "_", "E">>,
       path |-> P_B,
       fullPath |-> <<"p", "o", "d", "-", "1", "/", "p", "a", "t", "h", "s", "-", "7", "/", "p", "a", "t", "h", "e", "p", "-", "[">> \o P_B \o S_close],
      [vlan |-> <<"1">>, epg |-> <<"V", "L", "A", "N", "1", "_", "E">>,
       path |-> P_B,
       fullPath |-> <<"P", "O", "D", "-", "1", "/", "p", "a", "t", "h", "s", "-", "7", "/", "p", "a", "t", "h", "e", "p", "-", "[">> \o P_B \o S_close] }

CsvArgChoices ==
    { [vlan |-> V_1, epg |-> <<"V", "L", "A", "N", "1", "_", "E">>],
      [vlan |-> V_20, epg |-> <<"V", "L", "A", "N", "2", "0", "_", "E">>] }

ValidateInit ==
    /\ pc = "build"
    /\ input = <<>>
    /\ typed = 0
    /\ endpointData \in {[vlan |-> v, ip |-> <<>>, paths |-> <<>>, pod |-> p] :
                            v \in {V_1, V_20}, p \in {S_pod1, S_pod2}}
    /\ attachments = <<>>
    /\ pathAttachments = <<>>
    /\ results = <<>>
    /\ csvArgs = Null
    /\ csv = Null

AddEndpointPath ==
    /\ pc = "build"
    /\ Len(endpointData.paths) < MaxPaths
    /\ \E p \in PathNames :
          endpointData' = [endpointData EXCEPT !.paths = Append(@, p)]
    /\ UNCHANGED <<pc, input, typed, attachments, pathAttachments, results, csvArgs, csv>>

AddPathAttachment ==
    /\ pc = "build"
    /\ Len(pathAttachments) < MaxAtt
    /\ \E a \in AttachmentChoices : pathAttachments' = Append(pathAttachments, a)
    /\ UNCHANGED <<pc, input, typed, endpointData, attachments, results, csvArgs, csv>>

CallValidateVlanAllowances ==
    /\ pc = "build"
    /\ results' = validateVlanAllowances(endpointData, pathAttachments)
    /\ pc' = "done"
    /\ UNCHANGED <<input, typed, endpointData, attachments, pathAttachments, csvArgs, csv>>

ValidateNext == AddEndpointPath \/ AddPathAttachment \/ CallValidateVlanAllowances

SpecValidate == ValidateInit /\ [][ValidateNext]_vars

CsvInit ==
    /\ pc = "build"
    /\ input = <<>>
    /\ typed = 0
    /\ endpointData \in {[vlan |-> V_1, ip |-> <<>>, paths |-> <<>>, pod |-> p] :
                            p \in {S_pod1, S_pod2}}
    /\ attachments = <<>>
    /\ pathAttachments = <<>>
    /\ results = <<>>
    /\ csvArgs = Null
    /\ csv = Null

AddResult ==
    /\ pc = "build"
    /\ Len(results) < MaxResults
    /\ \E p \in PathNames, ok \in BOOLEAN :
          results' = Append(results, [path |-> p,
                                      hasActiveEndpoint |-> TRUE,
                                      isVlanAllowed |-> ok,
                                      status |-> IF ok THEN S_allowed ELSE S_notAllowed])
    /\ UNCHANGED <<pc, input, typed, endpointData, attachments, pathAttachments, csvArgs, csv>>

CallGenerateCSV ==
    /\ pc = "build"
    /\ \E args \in CsvArgChoices :
          /\ csvArgs' = args
          /\ csv' = generateCSV(args.vlan, args.epg, results, endpointData, pathAttachments)
    /\ pc' = "done"
    /\ UNCHANGED <<input, typed, endpointData, attachments, pathAttachments, results>>

CsvNext == AddPathAttachment \/ AddResult \/ CallGenerateCSV

SpecCSV == CsvInit /\ [][CsvNext]_vars

(***************************************************************************)
(* What the claims about the validator and the CSV generator speak of.     *)
(***************************************************************************)
\* fullPath begins with the token pod-<digits> of the endpoint and a slash
LeadingPodIs(fullPath, pod) ==
    /\ Len(fullPath) > Len(pod)
    /\ SubSeq(fullPath, 1, Len(pod)) = pod
    /\ fullPath[Len(pod) + 1] = "/"

\* fullPath begins with some token pod-<digits> and a slash
HasLeadingPod(fullPath) ==
    \E a \in 5..Len(fullPath) :
        /\ SubSeq(fullPath, 1, 4) = S_pod
        /\ \A k \in 5..a : IsDigit(fullPath[k])
        /\ a < Len(fullPath)
        /\ fullPath[a + 1] = "/"

\* C2: each path of the endpoint gets a result, allowed exactly when some
\* attachment has that path, the endpoint's vlan and the endpoint's pod
\* leading its fullPath.
C2_AllowedIffVlanAndPodMatch ==
    pc = "done" =>
        /\ Len(results) = Len(endpointData.paths)
        /\ \A k \in 1..Len(results) :
              /\ results[k].path = endpointData.paths[k]
              /\ results[k].isVlanAllowed
                    <=> \E j \in 1..Len(pathAttachments) :
                           /\ pathAttachments[j].path = endpointData.paths[k]
                           /\ pathAttachments[j].vlan = endpointData.vlan
                           /\ LeadingPodIs(pathAttachments[j].fullPath, endpointData.pod)
              /\ results[k].status = IF results[k].isVlanAllowed THEN S_allowed ELSE S_notAllowed

C2_Witness ==
    /\ pc = "done"
    /\ \E k \in 1..Len(results) :
          /\ results[k].status = S_notAllowed
          /\ \E j \in 1..Len(pathAttachments) :
                /\ pathAttachments[j].path = results[k].path
                /\ pathAttachments[j].vlan = endpointData.vlan
                /\ HasLeadingPod(pathAttachments[j].fullPath)
                /\ ~LeadingPodIs(pathAttachments[j].fullPath, endpointData.pod)

\* the rows of the text returned by generateCSV: what follows the header and
\* its line end, cut at the line ends
CsvBody == SubSeq(csv, Len(S_header) + 2, Len(csv))

CsvDataRows == IF CsvBody = <<>> THEN <<>> ELSE Split(CsvBody)

\* the paths of the not_allowed results, in the order of the results
NotAllowedOf(rs) ==
    LET idx == Ascending({k \in 1..Len(rs) : rs[k].status = S_notAllowed})
    IN  [n \in 1..Len(idx) |-> rs[idx[n]].path]

\* the attachments with the row's path and the endpoint's pod
PodAttachments(path) ==
    {j \in 1..Len(pathAttachments) :
        /\ pathAttachments[j].path = path
        /\ LeadingPodIs(pathAttachments[j].fullPath, endpointData.pod)}

RowOf(fullPath) == csvArgs.vlan \o S_comma \o csvArgs.epg \o S_comma \o fullPath

CsvRowsAlign == pc = "done" /\ Len(CsvDataRows) = Len(NotAllowedOf(results))

IsProtpathsSynthesis(fullPath, path, pod) ==
    \E i \in 1..Len(path) : \E a \in i..Len(path) : \E b \in (a + 2)..Len(path) :
        /\ (i = 1 \/ ~IsDigit(path[i - 1]))
        /\ \A k \in i..a : IsDigit(path[k])
        /\ path[a + 1] = "-"
        /\ \A k \in (a + 2)..b : IsDigit(path[k])
        /\ LitAt(path, b + 1, S_dashVPC, FALSE)
        /\ fullPath = pod \o S_protpathsDash \o SubSeq(path, i, a) \o S_dash
                          \o SubSeq(path, a + 2, b) \o S_slashPathep \o path \o S_close

HoldsABVpc(path) ==
    \E i \in 1..Len(path) : \E a \in i..Len(path) : \E b \in (a + 2)..Len(path) :
        /\ (i = 1 \/ ~IsDigit(path[i - 1]))
        /\ \A k \in i..a : IsDigit(path[k])
        /\ path[a + 1] = "-"
        /\ \A k \in (a + 2)..b : IsDigit(path[k])
        /\ LitAt(path, b + 1, S_dashVPC, FALSE)

\* C4: the row of a not_allowed path that no attachment carries in the
\* endpoint's pod is synthesized: protpaths-<a>-<b> when the path holds
\* <a>-<b>-VPC, the placeholder paths-XXX otherwise.
C4_SynthesizedWhenNoPodAttachment ==
    pc = "done" =>
        /\ Len(CsvDataRows) = Len(NotAllowedOf(results))
        /\ \A n \in 1..Len(CsvDataRows) :
              LET path == NotAllowedOf(results)[n]
              IN  PodAttachments(path) = {} =>
                    IF HoldsABVpc(path)
                    THEN \E fp \in {SubSeq(CsvDataRows[n], k, Len(CsvDataRows[n])) :
                                       k \in 1..Len(CsvDataRows[n])} :
                            /\ CsvDataRows[n] = RowOf(fp)
                            /\ IsProtpathsSynthesis(fp, path, endpointData.pod)
                    ELSE CsvDataRows[n] =
                            RowOf(endpointData.pod \o S_pathsXXX \o path \o S_close)

C4_Witness ==
    /\ CsvRowsAlign
    /\ \E n \in 1..Len(CsvDataRows) :
          LET path == NotAllowedOf(results)[n]
          IN  /\ PodAttachments(path) = {}
              /\ \E j \in 1..Len(pathAttachments) :
                    pathAttachments[j].path = path /\ HasLeadingPod(pathAttachments[j].fullPath)
              /\ HoldsABVpc(path)
              /\ CsvDataRows[n] = RowOf(endpointData.pod \o S_protpathsDash \o <<"1", "1", "-", "2">>
                                          \o S_slashPathep \o path \o S_close)

\* C5: the text is the header row, a line end, and one row
\* <vlan>,<epg>,<fullPath> per not_allowed result, the rows separated by
\* line ends; allowed results give no row.
C5_HeaderAndOneRowPerNotAllowed ==
    pc = "done" =>
        /\ SubSeq(csv, 1, Len(S_header) + 1) = S_header \o S_newline
        /\ Len(CsvDataRows) = Cardinality({k \in 1..Len(results) : results[k].status = S_notAllowed})
        /\ \A n \in 1..Len(CsvDataRows) :
              /\ Len(CsvDataRows[n]) > Len(RowOf(<<>>))
              /\ SubSeq(CsvDataRows[n], 1, Len(RowOf(<<>>))) = RowOf(<<>>)

C5_Witness ==
    /\ CsvRowsAlign
    /\ Len(CsvDataRows) = 1
    /\ Len(results) = 2
    /\ csvArgs.vlan # endpointData.vlan

\* C10 as stated: among several attachments with the row's path and the
\* endpoint's pod but different fullPaths, the last gives the row's fullPath.
C10_LastPodAttachmentWins ==
    pc = "done" =>
        /\ Len(CsvDataRows) = Len(NotAllowedOf(results))
        /\ \A n \in 1..Len(CsvDataRows) :
              LET hits == PodAttachments(NotAllowedOf(results)[n])
              IN  (/\ Cardinality(hits) >= 2
                   /\ \A i, j \in hits :
                         i # j => pathAttachments[i].fullPath # pathAttachments[j].fullPath)
                     => CsvDataRows[n] = RowOf(pathAttachments[SetMax(hits)].fullPath)

\* C10, amended: among several attachments with the row's path and the
\* endpoint's pod but different fullPaths, the first gives the row's fullPath.
C10_FirstOfSeveralPodAttachmentsWins ==
    pc = "done" =>
        /\ Len(CsvDataRows) = Len(NotAllowedOf(results))
        /\ \A n \in 1..Len(CsvDataRows) :
              LET hits == PodAttachments(NotAllowedOf(results)[n])
              IN  (/\ Cardinality(hits) >= 2
                   /\ \A i, j \in hits :
                         i # j => pathAttachments[i].fullPath # pathAttachments[j].fullPath)
                     => /\ CsvDataRows[n] = RowOf(pathAttachments[SetMin(hits)].fullPath)
                        /\ CsvDataRows[n] # RowOf(pathAttachments[SetMax(hits)].fullPath)

C10_Witness ==
    /\ CsvRowsAlign
    /\ \E n \in 1..Len(CsvDataRows) :
          LET hits == PodAttachments(NotAllowedOf(results)[n])
          IN  /\ Cardinality(hits) >= 2
              /\ \A i, j \in hits :
                    i # j => pathAttachments[i].fullPath # pathAttachments[j].fullPath
              /\ CsvDataRows[n] = RowOf(pathAttachments[SetMin(hits)].fullPath)

====
